---- MODULE Spec2Model ----
(***************************************************************************)
(* A model of the traffic generator of csg-htsim (traffic_gen/):           *)
(*   - CustomRandomNumberGenerator (custom_random_number_generator.py):    *)
(*     the empirical CDF, its validation, installation and the two         *)
(*     interpolation queries;                                              *)
(*   - get_dst and exponential_dist_sample (traffic_gen_utils.py);         *)
(*   - main (traffic_gen.py): argument validation, the per-host flow       *)
(*     generation loop, the sort and the export.                           *)
(*                                                                         *)
(* Two specifications are given over the same variables:                   *)
(*   SpecCdf  a client calling the methods of one generator object in any  *)
(*            order with any arguments (what the unit tests do);           *)
(*   Spec     one run of main(), every random draw a nondeterministic      *)
(*            choice.                                                      *)
(*                                                                         *)
(* Numbers.  Python floats are modelled by exact rationals <<n, d>> in     *)
(* lowest terms with d > 0, so interpolation is computed, not assumed.     *)
(* Rounding error of the floating point unit is not modelled.              *)
(***************************************************************************)
EXTENDS Integers, Sequences, FiniteSets, TLC

(***************************************************************************)
(* Bounds of the model.                                                    *)
(***************************************************************************)
\* CDF files and set_cdf arguments hold at most MaxLen points.
MaxLen == 3
\* Point values a client passes range over -1..MaxVal.
MaxVal == 2
\* main() is run with 0..MaxHosts hosts.
MaxHosts == 3
\* The simulated run lasts 0 or MaxDuration nanoseconds.
MaxDuration == 2
\* The generation loop is followed until MaxFlows flows have been appended.
MaxFlows == 3

(***************************************************************************)
(* Constants of traffic_gen.py.                                            *)
(***************************************************************************)
NS_IN_S == 1000000000
BYTE_TO_BIT == 8

(***************************************************************************)
(* Exact rational arithmetic.                                              *)
(***************************************************************************)
Abs(x) == IF x < 0 THEN -x ELSE x

RECURSIVE GCD(_, _)
GCD(a, b) == IF b = 0 THEN a ELSE GCD(b, a % b)

\* The rational n/d (d # 0) in lowest terms with a positive denominator.
LowestTerms(n, d) ==
    LET g == GCD(Abs(n), Abs(d))
        s == IF d < 0 THEN -1 ELSE 1
    IN  << (s * n) \div g, (s * d) \div g >>

\* n and d are bound to their values once, whatever expressions they are.
Rat(n, d) == CHOOSE r \in {LowestTerms(x, y) : x \in {n}, y \in {d}} : TRUE

R(n) == << n, 1 >>
Zero == R(0)

RatAdd(a, b) == Rat(a[1] * b[2] + b[1] * a[2], a[2] * b[2])
RatSub(a, b) == Rat(a[1] * b[2] - b[1] * a[2], a[2] * b[2])
RatMul(a, b) == Rat(a[1] * b[1], a[2] * b[2])
RatDiv(a, b) == Rat(a[1] * b[2], a[2] * b[1])
RatLe(a, b) == a[1] * b[2] <= b[1] * a[2]
RatLt(a, b) == a[1] * b[2] < b[1] * a[2]

\* Python's int(x) on a float: truncation toward zero.
IntOf(a) == IF a[1] >= 0 THEN a[1] \div a[2] ELSE -((-a[1]) \div a[2])

Max(a, b) == IF a >= b THEN a ELSE b

(***************************************************************************)
(* CdfDataPoint and the inputs a caller may pass.                          *)
(***************************************************************************)
CdfDataPoint(v, p) == [value |-> v, cumulative_prob_perc |-> p]

Values == (-1)..MaxVal
Probs == {0, 50, 100}
Points == {CdfDataPoint(v, p) : v \in Values, p \in Probs}

\* Every list of at most MaxLen points, the empty list included.
CdfInputs == UNION {[1..n -> Points] : n \in 0..MaxLen}

\* Percentile arguments: below 0, the breakpoints, between them, above 100.
PercentileArgs == {R(-10), R(0), R(10), R(25), R(50), R(75), R(100), R(110)}

\* Value arguments: every half-integer from below MinVal to above MaxVal.
ValueArgs == {Rat(k, 2) : k \in (-4)..(2 * MaxVal + 2)}

(***************************************************************************)
(* Results of a call: a kind and, for kind "num", the number returned.     *)
(***************************************************************************)
Result(k) == [kind |-> k, num |-> Zero]
Num(r) == [kind |-> "num", num |-> r]
NoArg == [points |-> << >>, num |-> Zero, of |-> Result("None")]

\* The output file before export_flows has run.
NoOutput == [written |-> FALSE, nodes |-> 0, connections |-> 0, lines |-> << >>]

VARIABLES
    cdf,        \* self.cdf of the CustomRandomNumberGenerator
    old_cdf,    \* self.cdf when the call in progress was entered
    op,         \* the method last called
    arg,        \* its argument
    ret,        \* what it returned or raised
    cpc         \* the client's position: "idle" or "returned"

cdfvars == << cdf, old_cdf, op, arg, ret, cpc >>

VARIABLES
    pc,                         \* where main() is
    nhost,                      \* args.nhost
    load,                       \* args.load
    bandwidth,                  \* args.bandwidth, the string
    cdf_file,                   \* the points in the file at cdf_file_path
    base_time_ns,               \* args.base_time_s * NS_IN_S
    sim_duration_ns,            \* args.sim_duration_s * NS_IN_S
    avg_inter_arrival_time_ns,
    flow_list,
    generated,                  \* flow_list as it was when line 223 sorted it
    src_idc,
    flow_start_time_ns,
    dst_idx,                    \* the local of get_dst
    output,                     \* what export_flows wrote
    exit_status                 \* how main() ended, "" while it runs

mainvars == << pc, nhost, load, bandwidth, cdf_file, base_time_ns,
               sim_duration_ns, avg_inter_arrival_time_ns, flow_list, generated,
               src_idc, flow_start_time_ns, dst_idx, output, exit_status >>

vars == << cdfvars, mainvars >>

(***************************************************************************)
(* CustomRandomNumberGenerator.is_valid_cdf                                *)
(***************************************************************************)
\* Mutant of StepRejected: equal values are let through.
StepRejected_values(prev, curr) ==
    \/ curr.cumulative_prob_perc <= prev.cumulative_prob_perc
    \/ curr.value < prev.value

\* The test of lines 59-62 on one adjacent pair.
StepRejected(prev, curr) ==
    \/ curr.cumulative_prob_perc <= prev.cumulative_prob_perc
    \/ curr.value <= prev.value

\* The loop of lines 56-63: FALSE at the first non-increasing step.
RECURSIVE ValidFrom(_, _)
ValidFrom(input_cdf, i) ==
    IF i > Len(input_cdf) THEN TRUE
    ELSE IF StepRejected(input_cdf[i - 1], input_cdf[i])
         THEN FALSE
         ELSE ValidFrom(input_cdf, i + 1)

\* Lines 47-48 index the list before line 50 tests it for emptiness, so an
\* empty list raises IndexError.
is_valid_cdf(input_cdf) ==
    IF Len(input_cdf) = 0 THEN "IndexError"
    ELSE IF \/ input_cdf[1].cumulative_prob_perc # 0
            \/ input_cdf[Len(input_cdf)].cumulative_prob_perc # 100
         THEN "False"
         ELSE IF ValidFrom(input_cdf, 2) THEN "True" ELSE "False"

(***************************************************************************)
(* CustomRandomNumberGenerator.set_cdf: the new self.cdf and the result.   *)
(***************************************************************************)
set_cdf_store(self_cdf, input_cdf) ==
    IF is_valid_cdf(input_cdf) = "True" THEN input_cdf ELSE self_cdf

set_cdf_result(input_cdf) == is_valid_cdf(input_cdf)

(***************************************************************************)
(* CustomRandomNumberGenerator.calculate_average_value                     *)
(***************************************************************************)
RECURSIVE AverageFrom(_, _, _)
AverageFrom(c, i, total_average) ==
    IF i > Len(c) THEN total_average
    ELSE AverageFrom(c, i + 1,
            RatAdd(total_average,
                   RatMul(Rat(c[i].value + c[i - 1].value, 2),
                          R(c[i].cumulative_prob_perc - c[i - 1].cumulative_prob_perc))))

calculate_average_value(c) ==
    IF Len(c) = 0 THEN Result("IndexError")
    ELSE Num(RatDiv(AverageFrom(c, 2, Zero), R(100)))

(***************************************************************************)
(* CustomRandomNumberGenerator.get_value_from_percentile                   *)
(***************************************************************************)
\* Mutant of PercentileInSegment: a strict comparison.
PercentileInSegment_strict(percentile, upper_percentile) ==
    RatLt(percentile, R(upper_percentile))

\* The comparison of line 153.
PercentileInSegment(percentile, upper_percentile) ==
    RatLe(percentile, R(upper_percentile))

\* Mutant of InterpolateValue: the run of the segment is taken from 0.
InterpolateValue_run(lower, upper, percentile) ==
    RatAdd(R(lower.value),
           RatMul(RatSub(percentile, R(lower.cumulative_prob_perc)),
                  RatDiv(R(upper.value - lower.value),
                         R(upper.cumulative_prob_perc))))

\* The expression returned at lines 156-159.
InterpolateValue(lower, upper, percentile) ==
    RatAdd(R(lower.value),
           RatMul(RatSub(percentile, R(lower.cumulative_prob_perc)),
                  RatDiv(R(upper.value - lower.value),
                         R(upper.cumulative_prob_perc - lower.cumulative_prob_perc))))

\* Mutant of NoSegment: the last value is returned when no segment qualifies.
NoSegment_clamp(c) ==
    IF Len(c) = 0 THEN Result("None") ELSE Num(R(c[Len(c)].value))

\* The loop of line 152 ends without a return: the method returns None.
NoSegment(c) == Result("None")

RECURSIVE ValueScan(_, _, _)
ValueScan(c, percentile, i) ==
    IF i > Len(c) THEN NoSegment(c)
    ELSE IF PercentileInSegment(percentile, c[i].cumulative_prob_perc)
         THEN Num(InterpolateValue(c[i - 1], c[i], percentile))
         ELSE ValueScan(c, percentile, i + 1)

get_value_from_percentile(c, percentile) == ValueScan(c, percentile, 2)

(***************************************************************************)
(* CustomRandomNumberGenerator.get_percentile_from_value                   *)
(***************************************************************************)
\* Mutant of ValueOutOfRange: negative values are not turned away.
ValueOutOfRange_upper(c, value) == RatLt(R(c[Len(c)].value), value)

\* The guard of line 171.
ValueOutOfRange(c, value) ==
    RatLt(value, Zero) \/ RatLt(R(c[Len(c)].value), value)

\* The expression returned at lines 178-182.
InterpolatePercentile(lower, upper, value) ==
    RatAdd(R(lower.cumulative_prob_perc),
           RatMul(RatDiv(R(upper.cumulative_prob_perc - lower.cumulative_prob_perc),
                         R(upper.value - lower.value)),
                  RatSub(value, R(lower.value))))

RECURSIVE PercentileScan(_, _, _)
PercentileScan(c, value, i) ==
    IF i > Len(c) THEN Result("None")
    ELSE IF RatLe(value, R(c[i].value))
         THEN Num(InterpolatePercentile(c[i - 1], c[i], value))
         ELSE PercentileScan(c, value, i + 1)

get_percentile_from_value(c, value) ==
    IF Len(c) = 0 THEN Result("IndexError")
    ELSE IF ValueOutOfRange(c, value) THEN Num(R(-1))
         ELSE PercentileScan(c, value, 2)

(***************************************************************************)
(* CustomRandomNumberGenerator.generate_random_number                      *)
(***************************************************************************)
\* random.random() * 100 lies in [0, 100): the values drawn here.
RandomPercentages == {R(0), R(10), R(50), R(75), R(99)}

generate_random_number(c, random_percentage) ==
    get_value_from_percentile(c, random_percentage)

(***************************************************************************)
(* SpecCdf: a client of one generator object.                              *)
(***************************************************************************)
\* main() is not part of SpecCdf: its variables rest.
MainNotRun ==
    /\ pc = "not_run"
    /\ nhost = 0
    /\ load = Zero
    /\ bandwidth = ""
    /\ cdf_file = << >>
    /\ base_time_ns = 0
    /\ sim_duration_ns = 0
    /\ avg_inter_arrival_time_ns = Zero
    /\ flow_list = << >>
    /\ generated = << >>
    /\ src_idc = 0
    /\ flow_start_time_ns = 0
    /\ dst_idx = 0
    /\ output = NoOutput
    /\ exit_status = ""

InitCdf ==
    /\ cdf = << >>
    /\ old_cdf = cdf
    /\ op = "__init__"
    /\ arg = NoArg
    /\ ret = Result("None")
    /\ cpc = "idle"
    /\ MainNotRun

\* Each call is guarded by the client's position before an argument is drawn.
CallIsValidCdf ==
    /\ UNCHANGED mainvars
    /\ cpc = "idle"
    /\ \E input_cdf \in CdfInputs :
          /\ arg' = [NoArg EXCEPT !.points = input_cdf]
          /\ ret' = Result(is_valid_cdf(input_cdf))
    /\ cpc' = "returned"
    /\ op' = "is_valid_cdf"
    /\ old_cdf' = cdf
    /\ UNCHANGED cdf

CallSetCdf ==
    /\ UNCHANGED mainvars
    /\ cpc = "idle"
    /\ \E input_cdf \in CdfInputs :
          /\ arg' = [NoArg EXCEPT !.points = input_cdf]
          /\ cdf' = set_cdf_store(cdf, input_cdf)
          /\ ret' = Result(set_cdf_result(input_cdf))
    /\ cpc' = "returned"
    /\ op' = "set_cdf"
    /\ old_cdf' = cdf

CallCalculateAverageValue ==
    /\ UNCHANGED mainvars
    /\ cpc = "idle"
    /\ cpc' = "returned"
    /\ op' = "calculate_average_value"
    /\ arg' = NoArg
    /\ old_cdf' = cdf
    /\ ret' = calculate_average_value(cdf)
    /\ UNCHANGED cdf

CallGetValueFromPercentile ==
    /\ UNCHANGED mainvars
    /\ cpc = "idle"
    /\ \E percentile \in PercentileArgs :
          /\ arg' = [NoArg EXCEPT !.num = percentile]
          /\ ret' = get_value_from_percentile(cdf, percentile)
    /\ cpc' = "returned"
    /\ op' = "get_value_from_percentile"
    /\ old_cdf' = cdf
    /\ UNCHANGED cdf

CallGetPercentileFromValue ==
    /\ UNCHANGED mainvars
    /\ cpc = "idle"
    /\ \E value \in ValueArgs :
          /\ arg' = [NoArg EXCEPT !.num = value]
          /\ ret' = get_percentile_from_value(cdf, value)
    /\ cpc' = "returned"
    /\ op' = "get_percentile_from_value"
    /\ old_cdf' = cdf
    /\ UNCHANGED cdf

CallGenerateRandomNumber ==
    /\ UNCHANGED mainvars
    /\ cpc = "idle"
    /\ \E random_percentage \in RandomPercentages :
          /\ arg' = [NoArg EXCEPT !.num = random_percentage]
          /\ ret' = generate_random_number(cdf, random_percentage)
    /\ cpc' = "returned"
    /\ op' = "generate_random_number"
    /\ old_cdf' = cdf
    /\ UNCHANGED cdf

\* The client feeds the percentile it was just given back into
\* get_value_from_percentile; arg.of remembers the value it came from.
CallGetValueOfReturnedPercentile ==
    /\ UNCHANGED mainvars
    /\ cpc = "returned"
    /\ op = "get_percentile_from_value"
    /\ ret.kind = "num"
    /\ op' = "get_value_from_percentile"
    /\ arg' = [NoArg EXCEPT !.num = ret.num, !.of = Num(arg.num)]
    /\ old_cdf' = cdf
    /\ ret' = get_value_from_percentile(cdf, ret.num)
    /\ UNCHANGED << cdf, cpc >>

\* The client has looked at the result and drops it; only the generator
\* object lives on to the next call.
ClientContinue ==
    /\ UNCHANGED mainvars
    /\ cpc = "returned"
    /\ cpc' = "idle"
    /\ old_cdf' = cdf
    /\ op' = "__init__"
    /\ arg' = NoArg
    /\ ret' = Result("None")
    /\ UNCHANGED cdf

NextCdf ==
    \/ CallIsValidCdf
    \/ CallSetCdf
    \/ CallCalculateAverageValue
    \/ CallGetValueFromPercentile
    \/ CallGetPercentileFromValue
    \/ CallGenerateRandomNumber
    \/ CallGetValueOfReturnedPercentile
    \/ ClientContinue

SpecCdf == InitCdf /\ [][NextCdf]_vars

(***************************************************************************)
(* traffic_gen_utils.py                                                    *)
(***************************************************************************)
\* translate_bandwidth on the strings main() is run with.  The result is
\* kept in units of 1e9 bit/s ("G"); "10X" raises ValueError.
translate_bandwidth(bandwidth_string) ==
    CASE bandwidth_string = "8G" -> Num(R(8))
      [] bandwidth_string = "0G" -> Num(R(0))
      [] OTHER -> Result("ValueError")

\* -math.log(1 - random.random()): 0 when random() is 0, else positive.
ExpDraws == {Zero, Rat(1, 2), R(1)}

\* Mutant of exponential_dist_sample: the minus sign of line 54 is lost.
exponential_dist_sample_sign(e, mean) == RatMul(RatSub(Zero, e), mean)

\* exponential_dist_sample(mean) for the draw e = -log(1 - U).
exponential_dist_sample(e, mean) == RatMul(e, mean)

\* Mutant of DrawnDst: randint's upper end is taken to be exclusive of
\* nothing, i.e. number_hosts itself can be drawn.
DrawnDst_inclusive(number_hosts) == 0..number_hosts

\* random.randint(0, number_hosts - 1) of lines 66 and 69.
DrawnDst(number_hosts) == 0..(number_hosts - 1)

\* The loop condition of line 68.
DstRejected(d, src_idx) == d = src_idx

(***************************************************************************)
(* traffic_gen.py                                                          *)
(***************************************************************************)
Flow(src, dst, size, start) ==
    [src_idx |-> src, dst_idx |-> dst, size_bytes |-> size, start_time_s |-> start]

\* flow_start_time_ns / NS_IN_S of line 216, kept as the fraction itself.
StartTimeS(ns) == << ns, NS_IN_S >>

\* Mutant of StartTimeLe: a flow is put in front of the flows of its own key.
StartTimeLe_strict(a, b) == a[1] < b[1]

\* The order of two start times; both are fractions over NS_IN_S.
StartTimeLe(a, b) == a[1] <= b[1]

\* Mutant of FlowSizeBytes: the lower clamp is left out.
FlowSizeBytes_unclamped(sample) == IntOf(sample)

\* max(int(custom_rand.generate_random_number()), 1) of line 210.
FlowSizeBytes(sample) == Max(IntOf(sample), 1)

\* list.sort(key=...) is stable: a flow goes behind every flow whose key is
\* not greater than its own.
RECURSIVE InsertByKey(_, _)
InsertByKey(sorted, flow) ==
    IF sorted = << >> THEN << flow >>
    ELSE IF StartTimeLe(sorted[Len(sorted)].start_time_s, flow.start_time_s)
         THEN Append(sorted, flow)
         ELSE Append(InsertByKey(SubSeq(sorted, 1, Len(sorted) - 1), flow),
                     sorted[Len(sorted)])

RECURSIVE SortByStartTime(_)
SortByStartTime(flows) ==
    IF flows = << >> THEN << >>
    ELSE InsertByKey(SortByStartTime(SubSeq(flows, 1, Len(flows) - 1)),
                     flows[Len(flows)])

\* connection_matrix_line: the fields of one line of the output file.
connection_matrix_line(flow, flow_id) ==
    [src |-> flow.src_idx, dst |-> flow.dst_idx, id |-> flow_id,
     start |-> flow.start_time_s, size |-> flow.size_bytes]

\* export_flows: the header and one line per flow, ids from 1.
export_flows(num_hosts, flows) ==
    [written |-> TRUE, nodes |-> num_hosts, connections |-> Len(flows),
     lines |-> [i \in 1..Len(flows) |-> connection_matrix_line(flows[i], i)]]

\* The files main() is given: an empty one, one that ends below 100, and
\* two valid ones, of mean 2 and of mean 0.
CdfFiles ==
    { << >>,
      << CdfDataPoint(0, 0), CdfDataPoint(3, 50) >>,
      << CdfDataPoint(0, 0), CdfDataPoint(4, 100) >>,
      << CdfDataPoint(-2, 0), CdfDataPoint(2, 100) >> }

Loads == {R(-1), Zero, R(1)}
Bandwidths == {"10X", "0G", "8G"}
BaseTimes == {1}

\* random.random() * 100 as drawn in main(): one draw below the first
\* byte, one above.
MainPercentages == {R(10), R(75)}

\* The state after parse_args (lines 168-176).
Init ==
    /\ cdf = << >>
    /\ old_cdf = << >>
    /\ op = "__init__"
    /\ arg = NoArg
    /\ ret = Result("None")
    /\ cpc = "idle"
    /\ pc = "start"
    /\ nhost \in 0..MaxHosts
    /\ load \in Loads
    /\ bandwidth \in Bandwidths
    /\ cdf_file \in CdfFiles
    /\ base_time_ns \in BaseTimes
    /\ sim_duration_ns \in {0, MaxDuration}
    /\ avg_inter_arrival_time_ns = Zero
    /\ flow_list = << >>
    /\ generated = << >>
    /\ src_idc = 0
    /\ flow_start_time_ns = 0
    /\ dst_idx = 0
    /\ output = NoOutput
    /\ exit_status = ""

Args == << nhost, load, bandwidth, cdf_file, base_time_ns, sim_duration_ns >>

\* Lines 178-187: the two argument checks.
ValidateArgs ==
    /\ pc = "start"
    /\ IF nhost = 0 \/ nhost < 2
       THEN pc' = "exit" /\ exit_status' = "nhost"
       ELSE IF translate_bandwidth(bandwidth).kind # "num"
            THEN pc' = "exit" /\ exit_status' = "bandwidth"
            ELSE pc' = "read_cdf" /\ UNCHANGED exit_status
    /\ UNCHANGED << generated, cdfvars, Args, avg_inter_arrival_time_ns, flow_list,
                    src_idc, flow_start_time_ns, dst_idx, output >>

\* Lines 190-195: set_cdf_from_file, leaving when it returns False.
ReadCdf ==
    /\ pc = "read_cdf"
    /\ cdf' = set_cdf_store(cdf, cdf_file)
    /\ CASE set_cdf_result(cdf_file) = "True" ->
                pc' = "compute" /\ UNCHANGED exit_status
         [] set_cdf_result(cdf_file) = "False" ->
                pc' = "exit" /\ exit_status' = "cdf"
         [] OTHER ->
                pc' = "raised" /\ exit_status' = set_cdf_result(cdf_file)
    /\ UNCHANGED << generated, old_cdf, op, arg, ret, cpc, Args, avg_inter_arrival_time_ns,
                    flow_list, src_idc, flow_start_time_ns, dst_idx, output >>

\* avg_load_bps of line 199, in units of 1e9 bit/s.
AvgLoad == RatMul(translate_bandwidth(bandwidth).num, load)

\* Lines 198-200.  avg_msg_size_bits / avg_load_bps * NS_IN_S, the factor
\* NS_IN_S cancelled against the unit of AvgLoad.
AvgInterArrivalTimeNs ==
    RatDiv(RatMul(calculate_average_value(cdf).num, R(BYTE_TO_BIT)), AvgLoad)

\* Lines 197-203: the division raises ZeroDivisionError on a load of 0.
ComputeInterArrival ==
    /\ pc = "compute"
    /\ IF AvgLoad = Zero
       THEN /\ pc' = "raised"
            /\ exit_status' = "ZeroDivisionError"
            /\ UNCHANGED avg_inter_arrival_time_ns
       ELSE /\ pc' = "for"
            /\ avg_inter_arrival_time_ns' = AvgInterArrivalTimeNs
            /\ UNCHANGED exit_status
    /\ UNCHANGED << generated, cdfvars, Args, flow_list, src_idc, flow_start_time_ns,
                    dst_idx, output >>

\* int(exponential_dist_sample(avg_inter_arrival_time_ns)) for the draw e.
Gap(e) == IntOf(exponential_dist_sample(e, avg_inter_arrival_time_ns))

\* Lines 204-207: the next source host and its first start time.
StartHost ==
    /\ pc = "for"
    /\ src_idc < nhost
    /\ \E e \in ExpDraws : flow_start_time_ns' = base_time_ns + Gap(e)
    /\ pc' = "while"
    /\ UNCHANGED << generated, cdfvars, Args, avg_inter_arrival_time_ns, flow_list,
                    src_idc, dst_idx, output, exit_status >>

\* The test of line 208.
InSimulation == flow_start_time_ns < base_time_ns + sim_duration_ns

\* Line 208 false: on to the next source host.
EndHost ==
    /\ pc = "while"
    /\ ~InSimulation
    /\ src_idc' = src_idc + 1
    /\ pc' = "for"
    /\ UNCHANGED << generated, cdfvars, Args, avg_inter_arrival_time_ns, flow_list,
                    flow_start_time_ns, dst_idx, output, exit_status >>

\* Line 208 true, line 209 and line 66 of get_dst: the first draw.
GetDstDraw ==
    /\ pc = "while"
    /\ InSimulation
    /\ Len(flow_list) < MaxFlows
    /\ dst_idx' \in DrawnDst(nhost)
    /\ pc' = "get_dst"
    /\ UNCHANGED << generated, cdfvars, Args, avg_inter_arrival_time_ns, flow_list,
                    src_idc, flow_start_time_ns, output, exit_status >>

\* Lines 68-69 of get_dst: the draw was the source, draw again.
GetDstRedraw ==
    /\ pc = "get_dst"
    /\ DstRejected(dst_idx, src_idc)
    /\ dst_idx' \in DrawnDst(nhost)
    /\ UNCHANGED << generated, cdfvars, Args, avg_inter_arrival_time_ns, flow_list,
                    src_idc, flow_start_time_ns, output, exit_status, pc >>

\* Line 70 of get_dst: the loop is left and dst_idx returned.
GetDstReturn ==
    /\ pc = "get_dst"
    /\ ~DstRejected(dst_idx, src_idc)
    /\ pc' = "emit"
    /\ UNCHANGED << generated, cdfvars, Args, avg_inter_arrival_time_ns, flow_list,
                    src_idc, flow_start_time_ns, dst_idx, output, exit_status >>

\* Lines 210-221: the size is drawn, the flow appended, the clock advanced.
EmitFlow ==
    /\ pc = "emit"
    /\ \E random_percentage \in MainPercentages :
          flow_list' = Append(flow_list,
              Flow(src_idc, dst_idx,
                   FlowSizeBytes(generate_random_number(cdf, random_percentage).num),
                   StartTimeS(flow_start_time_ns)))
    /\ \E e \in ExpDraws : flow_start_time_ns' = flow_start_time_ns + Gap(e)
    /\ pc' = "while"
    /\ UNCHANGED << generated, cdfvars, Args, avg_inter_arrival_time_ns, src_idc, dst_idx,
                    output, exit_status >>

\* Line 223: every host is done, the list is sorted by start time.
SortFlows ==
    /\ pc = "for"
    /\ src_idc >= nhost
    /\ generated' = flow_list
    /\ flow_list' = SortByStartTime(flow_list)
    /\ pc' = "export"
    /\ UNCHANGED << cdfvars, Args, avg_inter_arrival_time_ns, src_idc,
                    flow_start_time_ns, dst_idx, output, exit_status >>

\* Line 226.
ExportFlows ==
    /\ pc = "export"
    /\ output' = export_flows(nhost, flow_list)
    /\ pc' = "done"
    /\ UNCHANGED << generated, cdfvars, Args, avg_inter_arrival_time_ns, flow_list,
                    src_idc, flow_start_time_ns, dst_idx, exit_status >>

Next ==
    \/ ValidateArgs
    \/ ReadCdf
    \/ ComputeInterArrival
    \/ StartHost
    \/ EndHost
    \/ GetDstDraw
    \/ GetDstRedraw
    \/ GetDstReturn
    \/ EmitFlow
    \/ SortFlows
    \/ ExportFlows

Spec == Init /\ [][Next]_vars

(***************************************************************************)
(* SpecLive: main() followed without end, for termination.                 *)
(*                                                                         *)
(* Spec stops following the generation loop once MaxFlows flows have been  *)
(* appended.  Here the loop is followed for as long as the program runs    *)
(* it; flow_list records the first MaxFlows flows only, which the control  *)
(* flow of lines 204-221 never reads.  Loads are not negative, so that the *)
(* clock stays within base_time_ns .. base_time_ns + sim_duration_ns + the *)
(* largest gap.                                                            *)
(***************************************************************************)
InitLive ==
    /\ Init
    /\ ~RatLt(load, Zero)

\* Line 208 true, line 209 and line 66 of get_dst: the first draw.
GetDstDrawLive ==
    /\ pc = "while"
    /\ InSimulation
    /\ dst_idx' \in DrawnDst(nhost)
    /\ pc' = "get_dst"
    /\ UNCHANGED << generated, cdfvars, Args, avg_inter_arrival_time_ns,
                    flow_list, src_idc, flow_start_time_ns, output, exit_status >>

\* Lines 210-221, the flow recorded while there is room for it.
EmitFlowLive ==
    /\ pc = "emit"
    /\ \E random_percentage \in MainPercentages :
          flow_list' =
              IF Len(flow_list) < MaxFlows
              THEN Append(flow_list,
                      Flow(src_idc, dst_idx,
                           FlowSizeBytes(
                               generate_random_number(cdf, random_percentage).num),
                           StartTimeS(flow_start_time_ns)))
              ELSE flow_list
    /\ \E e \in ExpDraws : flow_start_time_ns' = flow_start_time_ns + Gap(e)
    /\ pc' = "while"
    /\ UNCHANGED << generated, cdfvars, Args, avg_inter_arrival_time_ns, src_idc,
                    dst_idx, output, exit_status >>

NextLive ==
    \/ ValidateArgs
    \/ ReadCdf
    \/ ComputeInterArrival
    \/ StartHost
    \/ EndHost
    \/ GetDstDrawLive
    \/ GetDstRedraw
    \/ GetDstReturn
    \/ EmitFlowLive
    \/ SortFlows
    \/ ExportFlows

\* A redraw of get_dst that is not the source again.
RedrawOtherHost == GetDstRedraw /\ ~DstRejected(dst_idx', src_idc)

\* An iteration of the while loop whose gap is not 0.
EmitAndAdvance == EmitFlowLive /\ flow_start_time_ns' > flow_start_time_ns

\* The interpreter always takes the next step; a random draw that is
\* possible again and again does not fail for ever.
SpecLive ==
    /\ InitLive
    /\ [][NextLive]_vars
    /\ WF_vars(NextLive)
    /\ SF_vars(RedrawOtherHost)
    /\ SF_vars(EmitAndAdvance)

(***************************************************************************)
(* Properties of the generator object (checked under SpecCdf).             *)
(***************************************************************************)
\* The data model's Cdf, stated on the list itself: boundaries 0 and 100
\* and both coordinates strictly increasing over every adjacent pair.
BoundariesAndMonotone(c) ==
    /\ Len(c) >= 1
    /\ c[1].cumulative_prob_perc = 0
    /\ c[Len(c)].cumulative_prob_perc = 100
    /\ \A i \in 1..(Len(c) - 1) :
          /\ c[i].value < c[i + 1].value
          /\ c[i].cumulative_prob_perc < c[i + 1].cumulative_prob_perc

FullyValidCdf(c) == Len(c) >= 2 /\ BoundariesAndMonotone(c)

Returned(method) == cpc = "returned" /\ op = method

\* C1: the stored Cdf is always empty or fully valid; set_cdf with an
\* invalid list returns False and leaves the stored Cdf as it was, set_cdf
\* with a valid list returns True and stores that list.
C1_SetInstallsOnlyValid ==
    /\ cdf = << >> \/ FullyValidCdf(cdf)
    /\ Returned("set_cdf") =>
          IF FullyValidCdf(arg.points)
          THEN ret.kind = "True" /\ cdf = arg.points
          ELSE ret.kind = "False" /\ cdf = old_cdf

\* C2: on a non-empty list is_valid_cdf returns True exactly when the first
\* probability is 0, the last is 100 and every adjacent pair increases
\* strictly on both axes, False otherwise; the stored Cdf is not changed.
C2_ValidateDecides ==
    (Returned("is_valid_cdf") /\ Len(arg.points) > 0) =>
        /\ ret.kind = IF BoundariesAndMonotone(arg.points) THEN "True" ELSE "False"
        /\ cdf = old_cdf

\* C2 witness: a list with a repeated value is turned down while another
\* Cdf is installed.
C2_Witness ==
    /\ Returned("is_valid_cdf")
    /\ Len(arg.points) = 3
    /\ arg.points[2].value = arg.points[3].value
    /\ arg.points[1].value < arg.points[2].value
    /\ arg.points[1].cumulative_prob_perc = 0
    /\ arg.points[2].cumulative_prob_perc = 50
    /\ arg.points[3].cumulative_prob_perc = 100
    /\ ret.kind = "False"
    /\ FullyValidCdf(cdf)

\* C3: is_valid_cdf on the empty list returns False, and so set_cdf on the
\* empty list returns False and leaves the stored Cdf untouched.
C3_EmptyListIsFalse ==
    ((Returned("is_valid_cdf") \/ Returned("set_cdf")) /\ arg.points = << >>) =>
        ret.kind = "False" /\ cdf = old_cdf

FirstSegmentAtValue(c, v, i) ==
    /\ RatLe(v, R(c[i].value))
    /\ \A j \in 2..(i - 1) : RatLt(R(c[j].value), v)

\* C7: with a valid Cdf installed, get_percentile_from_value(v) is -1 when
\* v < 0 or v > last.value, and otherwise lower.prob + (upper.prob -
\* lower.prob) * (v - lower.value) / (upper.value - lower.value) on the
\* first segment whose upper value is >= v.
C7_PercentileAtValue ==
    (Returned("get_percentile_from_value") /\ FullyValidCdf(cdf)) =>
        IF RatLt(arg.num, Zero) \/ RatLt(R(cdf[Len(cdf)].value), arg.num)
        THEN ret = Num(R(-1))
        ELSE \E i \in 2..Len(cdf) :
                /\ FirstSegmentAtValue(cdf, arg.num, i)
                /\ ret.kind = "num"
                /\ RatMul(RatSub(ret.num, R(cdf[i - 1].cumulative_prob_perc)),
                          R(cdf[i].value - cdf[i - 1].value))
                   = RatMul(R(cdf[i].cumulative_prob_perc
                              - cdf[i - 1].cumulative_prob_perc),
                            RatSub(arg.num, R(cdf[i - 1].value)))

\* C7 witness: a negative value that lies inside the Cdf's own range gets
\* the sentinel.
C7_Witness ==
    /\ Returned("get_percentile_from_value")
    /\ FullyValidCdf(cdf)
    /\ RatLt(arg.num, Zero)
    /\ RatLt(R(cdf[1].value), arg.num)
    /\ ret = Num(R(-1))

C10_RaisesRangeError ==
    (/\ Returned("get_value_from_percentile")
     /\ FullyValidCdf(cdf)
     /\ RatLt(R(100), arg.num)) =>
        ret.kind = "RangeError"

\* C10 as amended: with a valid Cdf installed, a percentile above 100 makes
\* get_value_from_percentile return None; nothing is raised.
C10_ReturnsNone ==
    (/\ Returned("get_value_from_percentile")
     /\ FullyValidCdf(cdf)
     /\ RatLt(R(100), arg.num)) =>
        ret = Result("None")

\* C10 witness: percentile 110 was asked of a valid Cdf.
C10_Witness ==
    /\ Returned("get_value_from_percentile")
    /\ FullyValidCdf(cdf)
    /\ arg.num = R(110)

(***************************************************************************)
(* Properties of main() (checked under Spec).                              *)
(***************************************************************************)
\* The flow list is in the hands of export_flows.
HandedToExport == pc \in {"export", "done"}

\* The target load bandwidth * load is positive.
PositiveLoad ==
    /\ translate_bandwidth(bandwidth).kind = "num"
    /\ RatLt(Zero, RatMul(translate_bandwidth(bandwidth).num, load))

\* C4: with nhost >= 2, a valid CDF file, a positive load and a positive
\* duration, the list handed to export_flows is non-decreasing in start
\* time and every flow has size >= 1, a destination other than its source,
\* and source and destination in 0..nhost-1.
C4_ExportedFlowsWellFormed ==
    (/\ HandedToExport
     /\ nhost >= 2
     /\ FullyValidCdf(cdf_file)
     /\ PositiveLoad
     /\ sim_duration_ns > 0) =>
        /\ \A i \in 1..(Len(flow_list) - 1) :
              /\ flow_list[i].start_time_s[2] = NS_IN_S
              /\ flow_list[i + 1].start_time_s[2] = NS_IN_S
              /\ flow_list[i].start_time_s[1] <= flow_list[i + 1].start_time_s[1]
        /\ \A i \in 1..Len(flow_list) :
              /\ flow_list[i].size_bytes >= 1
              /\ flow_list[i].dst_idx # flow_list[i].src_idx
              /\ flow_list[i].src_idx \in 0..(nhost - 1)
              /\ flow_list[i].dst_idx \in 0..(nhost - 1)

\* C4 witness: the exported list starts with a flow of a later host than
\* the flow behind it, so the sort has moved it, and holds a flow of 1 byte.
C4_Witness ==
    /\ pc = "done"
    /\ PositiveLoad
    /\ sim_duration_ns > 0
    /\ Len(flow_list) >= 2
    /\ flow_list[1].src_idx > flow_list[2].src_idx
    /\ flow_list[1].start_time_s[1] < flow_list[2].start_time_s[1]
    /\ \E i \in 1..Len(flow_list) : flow_list[i].size_bytes = 1

\* The configuration is degenerate: fewer than two hosts, no valid CDF, a
\* target load <= 0 or a mean inter-arrival time <= 0.
Degenerate ==
    \/ nhost < 2
    \/ ~FullyValidCdf(cdf_file)
    \/ ~PositiveLoad
    \/ /\ FullyValidCdf(cdf_file)
       /\ PositiveLoad
       /\ RatLe(RatDiv(RatMul(calculate_average_value(cdf_file).num,
                              R(BYTE_TO_BIT)),
                       RatMul(translate_bandwidth(bandwidth).num, load)), Zero)

\* C5: a degenerate configuration is turned away before the generation
\* loop: no flow is ever appended and nothing is exported.
C5_DegenerateRejected ==
    Degenerate => (flow_list = << >> /\ ~output.written)

\* C9: whatever get_dst returns for a source in 0..nhost-1, nhost >= 2, is
\* in 0..nhost-1 and is not the source.
C9_DstNeverSrc ==
    pc = "emit" =>
        /\ nhost >= 2
        /\ src_idc \in 0..(nhost - 1)
        /\ dst_idx \in 0..(nhost - 1)
        /\ dst_idx # src_idc

\* C9 witness: get_dst has returned for the last of three hosts.
C9_Witness ==
    /\ pc = "emit"
    /\ nhost = 3
    /\ src_idc = 2
    /\ dst_idx = 0

\* The flows in the order the loops of lines 204-221 appended them.
GenerationOrder == IF HandedToExport THEN generated ELSE flow_list

\* The mean inter-arrival time has been computed and is positive.
PositiveMean ==
    /\ pc \in {"for", "while", "get_dst", "emit", "export", "done"}
    /\ RatLt(Zero, avg_inter_arrival_time_ns)

\* The nanoseconds of a flow's start time.
StartNs(flow) == flow.start_time_s[1]

\* The source host's clock is in use (lines 205-221).
ClockRunning == pc \in {"while", "get_dst", "emit"}

\* The flows of the source host whose loop is running.
OwnFlows == {i \in 1..Len(flow_list) : flow_list[i].src_idx = src_idc}

PermutationsOf(n) ==
    {p \in [1..n -> 1..n] : \A i, j \in 1..n : i # j => p[i] # p[j]}

\* sorted holds exactly the flows of gen, ordered by start time and, among
\* equal start times, by their place in gen.
StableSortOf(gen, sorted) ==
    /\ Len(sorted) = Len(gen)
    /\ \E p \in PermutationsOf(Len(gen)) :
          /\ \A k \in 1..Len(gen) : sorted[k] = gen[p[k]]
          /\ \A k, l \in 1..Len(gen) :
                k < l => \/ StartNs(gen[p[k]]) < StartNs(gen[p[l]])
                         \/ /\ StartNs(gen[p[k]]) = StartNs(gen[p[l]])
                            /\ p[k] < p[l]

\* C13: the list handed to export_flows is a permutation of the flows the
\* per-host loops appended, sorted stably by start time: flows of equal
\* start time keep their generation order, which is by source index; the
\* exported ids are 1..flowCount in the sorted order.
C13_StableSortAndIds ==
    HandedToExport =>
        /\ StableSortOf(generated, flow_list)
        /\ \A i, j \in 1..Len(generated) :
              i < j => generated[i].src_idx <= generated[j].src_idx
        /\ \A k, l \in 1..Len(flow_list) :
              (k < l /\ StartNs(flow_list[k]) = StartNs(flow_list[l]))
                 => flow_list[k].src_idx <= flow_list[l].src_idx
        /\ pc = "done" =>
              /\ output.written
              /\ output.nodes = nhost
              /\ output.connections = Len(flow_list)
              /\ Len(output.lines) = Len(flow_list)
              /\ \A k \in 1..Len(flow_list) :
                    /\ output.lines[k].id = k
                    /\ output.lines[k].src = flow_list[k].src_idx
                    /\ output.lines[k].dst = flow_list[k].dst_idx
                    /\ output.lines[k].start = flow_list[k].start_time_s
                    /\ output.lines[k].size = flow_list[k].size_bytes

\* C13 witness: three flows were exported, the sort has reordered them, and
\* two flows of different sources share a start time.
C13_Witness ==
    /\ pc = "done"
    /\ Len(flow_list) = 3
    /\ flow_list # generated
    /\ \E k \in 1..2 :
          /\ StartNs(flow_list[k]) = StartNs(flow_list[k + 1])
          /\ flow_list[k].src_idx < flow_list[k + 1].src_idx
    /\ output.lines[3].id = 3

(***************************************************************************)
(* Termination of main() (checked under SpecLive).                         *)
(***************************************************************************)
\* C12: with nhost >= 2, a valid CDF file and a positive target load,
\* under fair random draws the generation ends and the flows are sorted
\* and exported.
C12_GenerationTerminates ==
    (nhost >= 2 /\ FullyValidCdf(cdf_file) /\ PositiveLoad) ~> (pc = "done")

\* C12, for the runs whose mean inter-arrival time is positive as well:
\* these do end.
C12_TerminatesWithPositiveMean == (pc = "start" /\ ~Degenerate) ~> (pc = "done")

====
